---- MODULE Spec2Model ----
(***************************************************************************)
(* Code Snapshot Suite: the snapshot storage engine (SnapshotStorage in    *)
(* packages/core/src/utils.ts).                                            *)
(*                                                                         *)
(* A workspace directory holds ordinary files and, inside it, the storage  *)
(* directory (workspaceRoot/snapshotsPath) with one container file per     *)
(* snapshot or backup and the index document metadata.json.  The public    *)
(* operations saveSnapshot, restoreSnapshot and deleteSnapshot are         *)
(* modelled step by step at their await points; I/O faults (unreadable     *)
(* files, failing writes) are inputs of the steps.                         *)
(***************************************************************************)
EXTENDS Integers, Sequences, FiniteSets, TLC

(***************************************************************************)
(* Bounds of the model.                                                    *)
(***************************************************************************)
\* Date.now() takes the values 1..MaxTime.
MaxTime == 2
\* Number of public operations started in one behaviour.
MaxOps == 3

(***************************************************************************)
(* Strings are sequences of one-character strings, so that the glob        *)
(* matcher can look inside them.                                           *)
(***************************************************************************)
A_TXT == <<"a", ".", "t", "x", "t">>
B_LOG == <<"b", ".", "l", "o", "g">>
SLASH == "/"
DOT_SNAPSHOTS == <<".", "s", "n", "a", "p", "s", "h", "o", "t", "s">>
SNAPS == <<"s", "n", "a", "p", "s">>
METADATA_JSON == <<"m", "e", "t", "a", "d", "a", "t", "a", ".", "j", "s", "o", "n">>
SNAPSHOT_ == <<"s", "n", "a", "p", "s", "h", "o", "t", "_">>
BACKUP_ == <<"b", "a", "c", "k", "u", "p", "_">>
DOT_ZIP == <<".", "z", "i", "p">>

\* Decimal digits of a timestamp (timestamps of the model have one digit).
Digits(n) == <<<<"0", "1", "2", "3", "4", "5", "6", "7", "8", "9">>[n + 1]>>

GIT_C == <<".", "g", "i", "t", "/", "c">>
SRC_A_TS == <<"s", "r", "c", "/", "a", ".", "t", "s">>

\* The ordinary files a workspace can hold, by relative path.
WorkspacePaths == {A_TXT, B_LOG}
\* The files of the trees the scan is applied to on its own: also a file in a
\* default-excluded directory and a file in a subdirectory.
ScanPaths == WorkspacePaths \cup {GIT_C, SRC_A_TS}
\* The files the user edits between operations.
EditedPaths == {A_TXT}
\* File contents (byte sequences).
Contents == {<<1>>, <<2, 2>>}

(***************************************************************************)
(* matchesPattern: the pattern becomes the source of a regular expression  *)
(* ('*' -> '.*', '?' -> '.'), which is searched for anywhere in the path.  *)
(* A '.' of the pattern stays a '.' of the regular expression, where it    *)
(* matches any character.                                                  *)
(***************************************************************************)
RECURSIVE ReplaceChar(_, _, _)
ReplaceChar(s, c, r) ==
    IF s = <<>> THEN <<>>
    ELSE (IF Head(s) = c THEN r ELSE <<Head(s)>>) \o ReplaceChar(Tail(s), c, r)

RegexSource(pattern) ==
    ReplaceChar(ReplaceChar(pattern, "*", <<".", "*">>), "?", <<".">>)

\* One atom of the regular expression matches one character.
AtomMatches(a, ch) == a = "." \/ a = ch

\* Does the regular expression src[i..] match a prefix of s[j..]?
RECURSIVE MatchHere(_, _, _, _)
MatchHere(src, i, s, j) ==
    IF i > Len(src) THEN TRUE
    ELSE IF i < Len(src) /\ src[i + 1] = "*"
         THEN \/ MatchHere(src, i + 2, s, j)
              \/ /\ j <= Len(s)
                 /\ AtomMatches(src[i], s[j])
                 /\ MatchHere(src, i, s, j + 1)
         ELSE /\ j <= Len(s)
              /\ AtomMatches(src[i], s[j])
              /\ MatchHere(src, i + 1, s, j + 1)

\* RegExp.prototype.test: an unanchored search.
RegexTest(src, s) == \E j \in 1..(Len(s) + 1) : MatchHere(src, 1, s, j)

matchesPattern(filePath, pattern) == RegexTest(RegexSource(pattern), filePath)

defaultExcludes ==
    << <<"n", "o", "d", "e", "_", "m", "o", "d", "u", "l", "e", "s">>,
       <<".", "g", "i", "t">>,
       <<".", "v", "s", "c", "o", "d", "e">>,
       <<"o", "u", "t">>,
       <<"d", "i", "s", "t">>,
       <<"*", ".", "l", "o", "g">> >>

\* shouldIncludeFile as it would be if a matching include pattern were accepted
\* before the exclude patterns are looked at.
shouldIncludeFileIncludeFirst(filePath, options) ==
    LET excludePatterns == defaultExcludes \o options.excludePatterns
    IN  \/ \E k \in 1..Len(options.includePatterns) :
               matchesPattern(filePath, options.includePatterns[k])
        \/ /\ options.includePatterns = <<>>
           /\ \A k \in 1..Len(excludePatterns) :
                  ~matchesPattern(filePath, excludePatterns[k])

\* options.excludePatterns / options.includePatterns: <<>> stands for undefined.
shouldIncludeFile(filePath, options) ==
    LET excludePatterns == defaultExcludes \o options.excludePatterns
    IN  /\ \A k \in 1..Len(excludePatterns) :
               ~matchesPattern(filePath, excludePatterns[k])
        /\ \/ options.includePatterns = <<>>
           \/ \E k \in 1..Len(options.includePatterns) :
                  matchesPattern(filePath, options.includePatterns[k])

(***************************************************************************)
(* Values.                                                                 *)
(***************************************************************************)
\* A map with no entries (no files, no containers).
EmptyMap == [x \in {} |-> x]
\* A workspace path with no file.
Absent == <<>>
\* The value of a property that is not set.
UNDEFINED == "undefined"

\* Identifiers: `snapshot_${timestamp}` and `backup_${Date.now()}`.
SnapshotId(t) == <<"snapshot", t>>
BackupId(t) == <<"backup", t>>
Ids == {SnapshotId(t) : t \in 1..MaxTime} \cup {BackupId(t) : t \in 1..MaxTime}

\* `${id}.zip`, the name of the container file of an identifier.
ZipName(id) ==
    (IF id[1] = "snapshot" THEN SNAPSHOT_ ELSE BACKUP_) \o Digits(id[2]) \o DOT_ZIP

\* path.join(a, b) on a POSIX host.
PathJoin(a, b) == IF a = <<>> THEN b ELSE a \o <<SLASH>> \o b

\* The options a caller passes to saveSnapshot.
TXT == <<"t", "x", "t">>
OptionsSet ==
    { [message |-> UNDEFINED, includePatterns |-> <<>>, excludePatterns |-> <<>>],
      [message |-> "wip", includePatterns |-> <<>>, excludePatterns |-> <<TXT>>] }
\* The backup as it would be if it left out the files matching 'txt'.
OptionsWithoutTxt ==
    [message |-> UNDEFINED, includePatterns |-> <<>>, excludePatterns |-> <<TXT>>]
\* addFilesToZip(backupZip, targetPath): options = {}.
NoOptions == [message |-> UNDEFINED, includePatterns |-> <<>>, excludePatterns |-> <<>>]
\* The options the scan is applied to on its own: also include patterns, one
\* that matches the file in the default-excluded directory and one for a file
\* extension.
DOT_GIT == <<".", "g", "i", "t">>
STAR_TS == <<"*", ".", "t", "s">>
ScanOptionsSet ==
    OptionsSet \cup
    { [message |-> UNDEFINED, includePatterns |-> <<DOT_GIT, TXT>>, excludePatterns |-> <<>>],
      [message |-> UNDEFINED, includePatterns |-> <<STAR_TS>>, excludePatterns |-> <<>>] }

\* The sets of files whose read fails during one scan.
UnreadableSets == {{}} \cup {{p} : p \in WorkspacePaths}

\* The names the storage directory is configured with (snapshotsPath).
SnapshotsPaths == {DOT_SNAPSHOTS, SNAPS}

(***************************************************************************)
(* State.                                                                  *)
(***************************************************************************)
VARIABLES
    snapshotsPath,  \* constructor argument: name of the storage directory
    files,          \* ordinary files of the workspace: path -> bytes or Absent
    dirExists,      \* the storage directory exists
    zips,           \* container files of the storage directory: id -> container
    metadata,       \* metadata.json: [exists, doc]
    now,            \* Date.now()
    pc,             \* per caller: the await point it is at
    cur,            \* per caller: arguments and locals of the running operation
    opCount,        \* operations started so far
    last,           \* the operation that completed last, with the state before it
    live,           \* records returned by saveSnapshot whose id was not deleted since
    events,         \* TelemetryManager.events: the in-memory list
    telemetryFile,  \* .snapshots/telemetry.json: [exists, events]
    history,        \* the events persisted before and the events tracked since
    proLicenseKey,  \* context.globalState 'proLicenseKey'
    timeout,        \* the timers set by setTimeout and not yet run or cleared
    invoked,        \* the invocations of the wrapped function (func, fn) so far
    calls           \* the calls of the debounced function so far

storageVars == <<snapshotsPath, files, dirExists, zips, metadata, live>>
telemetryVars == <<events, telemetryFile, history>>
utilVars == <<events, telemetryFile, history, proLicenseKey, timeout, invoked, calls>>
vars == <<snapshotsPath, files, dirExists, zips, metadata, now, pc, cur, opCount,
          last, live, events, telemetryFile, history, proLicenseKey, timeout,
          invoked, calls>>

\* No telemetry.json.
NoFile == [exists |-> FALSE, events |-> <<>>]

\* The state of what SnapshotStorage does not touch: a TelemetryManager just
\* constructed, no stored key, no timer.
UtilInit ==
    /\ events = <<>>
    /\ telemetryFile = NoFile
    /\ history = [persisted |-> <<>>, tracked |-> <<>>]
    /\ proLicenseKey = <<>>
    /\ timeout = <<>>
    /\ invoked = <<>>
    /\ calls = <<>>

Procs == {1, 2}

(***************************************************************************)
(* The directory tree addDirectory walks, and what a scan captures.        *)
(***************************************************************************)
\* The last segment of a path: the entry.name of the directory entry.
EntryName(path) ==
    LET starts == {j \in 1..Len(path) : j = 1 \/ path[j - 1] = SLASH}
        s == CHOOSE j \in starts : \A i \in starts : i <= j
    IN  SubSeq(path, s, Len(path))

\* The path itself and the directories above it, as relative paths.
PathAndParents(path) ==
    {SubSeq(path, 1, k - 1) : k \in {j \in 1..Len(path) : path[j] = SLASH}} \cup {path}

\* addDirectory as it would be if it entered every directory and applied the
\* filter to files only.
VisitedWithoutPruning(relativeFilePath, options) ==
    /\ \A q \in PathAndParents(relativeFilePath) : EntryName(q) # DOT_SNAPSHOTS
    /\ shouldIncludeFile(relativeFilePath, options)

\* addDirectory reaches the entry at relativeFilePath and takes it: neither it nor
\* a directory above it is named '.snapshots' or fails shouldIncludeFile.
Visited(relativeFilePath, options) ==
    \A q \in PathAndParents(relativeFilePath) :
        /\ EntryName(q) # DOT_SNAPSHOTS
        /\ shouldIncludeFile(q, options)

\* Visited, tabulated once for the paths and options of the model.
ScannedPaths ==
    ScanPaths
    \cup {PathJoin(d, METADATA_JSON) : d \in SnapshotsPaths}
    \cup {PathJoin(d, ZipName(id)) : d \in SnapshotsPaths, id \in Ids}
VisitedTable ==
    [options \in ScanOptionsSet \cup {NoOptions} |->
        [path \in ScannedPaths |-> Visited(path, options)]]
Taken(path, options) == VisitedTable[options][path]

\* A container: the entries of a zip archive.  `files` are the ordinary files by
\* relative path; `meta` (zero or one index document) and `zips` (containers by
\* id) are the entries that lie under the storage directory.
EmptyZip == [files |-> EmptyMap, meta |-> <<>>, zips |-> EmptyMap]

\* The directory tree rooted at the workspace, as one value.
Tree(f, d, z, m) == [files |-> f, dirExists |-> d, zips |-> z, metadata |-> m]

\* addFilesToZip as it would be if fileCount++ came before fs.readFile.
addFilesToZipCountingUnreadable(tree, dir, options, unreadable) ==
    LET taken == {p \in DOMAIN tree.files :
                    /\ tree.files[p] # Absent
                    /\ Taken(p, options)
                    /\ p \notin unreadable}
        meta == IF /\ tree.dirExists
                   /\ tree.metadata.exists
                   /\ Taken(PathJoin(dir, METADATA_JSON), options)
                THEN <<tree.metadata.doc>>
                ELSE <<>>
        ids == {id \in DOMAIN tree.zips :
                    /\ tree.dirExists
                    /\ Taken(PathJoin(dir, ZipName(id)), options)}
    IN  [zip |-> [files |-> [p \in taken |-> tree.files[p]],
                  meta |-> meta,
                  zips |-> [id \in ids |-> tree.zips[id]]],
         fileCount |-> Cardinality(taken) + Len(meta) + Cardinality(ids)
                       + Cardinality({p \in unreadable : tree.files[p] # Absent
                                                         /\ Taken(p, options)})]

\* addFilesToZip as it would be if it counted every file it can read, taken
\* or not.
addFilesToZipCountingRejected(tree, dir, options, unreadable) ==
    LET taken == {p \in DOMAIN tree.files :
                    /\ tree.files[p] # Absent
                    /\ Taken(p, options)
                    /\ p \notin unreadable}
        meta == IF /\ tree.dirExists
                   /\ tree.metadata.exists
                   /\ Taken(PathJoin(dir, METADATA_JSON), options)
                THEN <<tree.metadata.doc>>
                ELSE <<>>
        ids == {id \in DOMAIN tree.zips :
                    /\ tree.dirExists
                    /\ Taken(PathJoin(dir, ZipName(id)), options)}
    IN  [zip |-> [files |-> [p \in taken |-> tree.files[p]],
                  meta |-> meta,
                  zips |-> [id \in ids |-> tree.zips[id]]],
         fileCount |-> Cardinality({p \in DOMAIN tree.files : tree.files[p] # Absent
                                                          /\ p \notin unreadable})
                       + Len(meta) + Cardinality(ids)]

\* addFilesToZip(zip, rootPath, options): the filled zip and the file count.
\* `dir` is the name of the storage directory inside rootPath; `unreadable` are
\* the files whose fs.readFile throws (they are skipped).
addFilesToZip(tree, dir, options, unreadable) ==
    LET taken == {p \in DOMAIN tree.files :
                    /\ tree.files[p] # Absent
                    /\ Taken(p, options)
                    /\ p \notin unreadable}
        meta == IF /\ tree.dirExists
                   /\ tree.metadata.exists
                   /\ Taken(PathJoin(dir, METADATA_JSON), options)
                THEN <<tree.metadata.doc>>
                ELSE <<>>
        ids == {id \in DOMAIN tree.zips :
                    /\ tree.dirExists
                    /\ Taken(PathJoin(dir, ZipName(id)), options)}
    IN  [zip |-> [files |-> [p \in taken |-> tree.files[p]],
                  meta |-> meta,
                  zips |-> [id \in ids |-> tree.zips[id]]],
         fileCount |-> Cardinality(taken) + Len(meta) + Cardinality(ids)]

\* Sum of g[x] over the domain of g.
RECURSIVE SumOver(_)
SumOver(g) ==
    IF DOMAIN g = {} THEN 0
    ELSE LET x == CHOOSE y \in DOMAIN g : TRUE
         IN  g[x] + SumOver([y \in DOMAIN g \ {x} |-> g[y]])

\* stats.size of a written container: the bytes it stores (the archive format's
\* own overhead is left out).
RECURSIVE ZipSize(_)
ZipSize(zip) ==
    SumOver([p \in DOMAIN zip.files |-> Len(zip.files[p])])
    + SumOver([i \in DOMAIN zip.meta |-> Len(zip.meta[i])])
    + SumOver([id \in DOMAIN zip.zips |-> ZipSize(zip.zips[id])])

\* extractAllTo as it would be if it made the target a mirror of the container.
ExtractFilesMirroring(zip, f) ==
    [p \in DOMAIN f |-> IF p \in DOMAIN zip.files THEN zip.files[p] ELSE Absent]

\* zip.extractAllTo(targetPath, true) on the ordinary files: every entry is
\* written over the file at its path, other files are left alone.
ExtractFiles(zip, f) ==
    [p \in DOMAIN f |-> IF p \in DOMAIN zip.files THEN zip.files[p] ELSE f[p]]

\* ... on the container files of the storage directory,
ExtractZips(zip, z) ==
    [id \in DOMAIN z \cup DOMAIN zip.zips |->
        IF id \in DOMAIN zip.zips THEN zip.zips[id] ELSE z[id]]

\* ... and on the index document.
ExtractMetadata(zip, m) ==
    IF zip.meta # <<>> THEN [exists |-> TRUE, doc |-> zip.meta[1]] ELSE m

(***************************************************************************)
(* The index document.                                                     *)
(***************************************************************************)
RecordFields == {"id", "timestamp", "message", "fileCount", "size", "workspacePath"}

\* Reading a property of a parsed object: undefined when the key is missing.
Prop(obj, f) == IF f \in DOMAIN obj THEN obj[f] ELSE UNDEFINED

\* JSON.stringify(snapshots, null, 2): a property whose value is undefined is
\* left out of the document (of SnapshotMetadata, only message can be undefined).
JSONStringify(snapshots) ==
    [i \in 1..Len(snapshots) |->
        [f \in {g \in DOMAIN snapshots[i] :
                    g = "message" => snapshots[i].message # UNDEFINED} |->
            snapshots[i][f]]]

\* JSON.parse(data), read as SnapshotMetadata[].
JSONParse(doc) ==
    [i \in 1..Len(doc) |-> [f \in RecordFields |-> Prop(doc[i], f)]]

\* A document that was cut off inside an object: JSON.parse throws on it.
TRUNCATED == <<[truncated |-> TRUE]>>
Parsable(doc) == \A i \in 1..Len(doc) : "truncated" \notin DOMAIN doc[i]

\* listSnapshots(): the parsed document, [] when fs.readFile or JSON.parse throws.
listSnapshots(tree) ==
    IF tree.dirExists /\ tree.metadata.exists /\ Parsable(tree.metadata.doc)
    THEN JSONParse(tree.metadata.doc)
    ELSE <<>>

\* getSnapshotMetadata(snapshotId): snapshots.find(s => s.id === snapshotId) || null,
\* as a sequence of zero or one record.
getSnapshotMetadata(tree, snapshotId) ==
    LET snapshots == listSnapshots(tree)
        found == {i \in 1..Len(snapshots) : snapshots[i].id = snapshotId}
    IN  IF found = {} THEN <<>>
        ELSE <<snapshots[CHOOSE i \in found : \A j \in found : i <= j]>>

\* snapshots.sort((a, b) => b.timestamp - a.timestamp): a stable sort.
RECURSIVE SortByTimestampDesc(_)
SortByTimestampDesc(snapshots) ==
    IF snapshots = <<>> THEN <<>>
    ELSE LET n == Len(snapshots)
             x == snapshots[n]
             sorted == SortByTimestampDesc(SubSeq(snapshots, 1, n - 1))
             k == Cardinality({i \in 1..(n - 1) : sorted[i].timestamp >= x.timestamp})
         IN  SubSeq(sorted, 1, k) \o <<x>> \o SubSeq(sorted, k + 1, n - 1)

\* updateMetadata as it would be without its sort.
updateMetadataNoSort(snapshots, newMetadata) == Append(snapshots, newMetadata)

\* updateMetadata(newMetadata), after its listSnapshots(): the array it saves.
updateMetadata(snapshots, newMetadata) ==
    SortByTimestampDesc(Append(snapshots, newMetadata))

\* deleteSnapshot as it would be if it cut the index at the record it removes.
RECURSIVE FilterOutIdAndFollowing(_, _)
FilterOutIdAndFollowing(snapshots, snapshotId) ==
    IF snapshots = <<>> \/ Head(snapshots).id = snapshotId THEN <<>>
    ELSE <<Head(snapshots)>> \o FilterOutIdAndFollowing(Tail(snapshots), snapshotId)

\* snapshots.filter(s => s.id !== snapshotId)
RECURSIVE FilterOutId(_, _)
FilterOutId(snapshots, snapshotId) ==
    IF snapshots = <<>> THEN <<>>
    ELSE (IF Head(snapshots).id # snapshotId THEN <<Head(snapshots)>> ELSE <<>>)
         \o FilterOutId(Tail(snapshots), snapshotId)

\* The metadata object saveSnapshot builds and returns.
SnapshotMetadata(timestamp, options, fileCount, size) ==
    [id |-> SnapshotId(timestamp),
     timestamp |-> timestamp,
     message |-> options.message,
     fileCount |-> fileCount,
     size |-> size,
     workspacePath |-> "workspaceRoot"]

(***************************************************************************)
(* Initial state: a new SnapshotStorage over a workspace that has no       *)
(* storage directory yet.                                                  *)
(***************************************************************************)
Idle == [op |-> "none"]
NoOp == [op |-> "none", id |-> <<>>, ok |-> TRUE, fault |-> FALSE]

Init ==
    /\ UtilInit
    /\ snapshotsPath \in SnapshotsPaths
    /\ files = [p \in WorkspacePaths |-> <<1>>]
    /\ dirExists = FALSE
    /\ zips = EmptyMap
    /\ metadata = [exists |-> FALSE, doc |-> <<>>]
    /\ now = 1
    /\ pc = [p \in Procs |-> "idle"]
    /\ cur = [p \in Procs |-> Idle]
    /\ opCount = 0
    /\ last = NoOp
    /\ live = <<>>

\* The directory tree as it is now.
Now == Tree(files, dirExists, zips, metadata)

\* The identifiers a caller passes to restoreSnapshot and deleteSnapshot: those
\* of a container or of a record, and one identifier of neither (all such
\* identifiers behave alike).
IndexIds(tree) ==
    {listSnapshots(tree)[i].id : i \in 1..Len(listSnapshots(tree))}
KnownIds == DOMAIN zips \cup IndexIds(Now)
CallIds ==
    KnownIds \cup (IF Ids \ KnownIds = {} THEN {}
                   ELSE {CHOOSE id \in Ids \ KnownIds : TRUE})

\* The operation of caller p returns or throws; `summary` describes it.
Finish(p, summary) ==
    /\ pc' = [pc EXCEPT ![p] = "idle"]
    /\ cur' = [cur EXCEPT ![p] = Idle]
    /\ last' = summary

\* Caller p goes on to the await point `label` with locals `locals`.
Goto(p, label, locals) ==
    /\ pc' = [pc EXCEPT ![p] = label]
    /\ cur' = [cur EXCEPT ![p] = locals]
    /\ UNCHANGED last

(***************************************************************************)
(* saveSnapshot(workspaceRoot, options)                                    *)
(***************************************************************************)
\* What is remembered of a completed saveSnapshot: `fault` says that an I/O
\* call was made to fail, `ret` holds the returned metadata, `at` the part of
\* saveSnapshot that returned or threw (ensureSnapshotsDir and the scan, the
\* write of the container, or updateMetadata).
SaveSummary(c, ok, fault, ret) ==
    [op |-> "save", id |-> SnapshotId(c.timestamp), ok |-> ok, fault |-> fault,
     ret |-> ret, before |-> c.before,
     at |-> IF "snapshots" \in DOMAIN c THEN "updateMetadata"
            ELSE IF "zip" \in DOMAIN c THEN "writeFile"
            ELSE "scan"]

\* ensureSnapshotsDir(), Date.now(), addFilesToZip(zip, workspaceRoot, options).
\* fault: "mkdir" (fs.mkdir throws), "readdir" (fs.readdir throws) or "none".
SaveBegin(p) ==
    /\ pc[p] = "idle"
    /\ opCount < MaxOps
    /\ opCount' = opCount + 1
    /\ \E options \in OptionsSet, unreadable \in UnreadableSets,
          fault \in {"none", "mkdir", "readdir"} :
        LET c == [op |-> "save", options |-> options, timestamp |-> now,
                  before |-> Now]
            scan == addFilesToZip(Tree(files, TRUE, zips, metadata), snapshotsPath,
                                  options, unreadable)
        IN  /\ fault = "mkdir" => ~dirExists
            /\ IF fault = "mkdir"
               THEN /\ Finish(p, SaveSummary(c, FALSE, TRUE, <<>>))
                    /\ UNCHANGED dirExists
               ELSE /\ dirExists' = TRUE
                    /\ IF fault = "readdir"
                       THEN Finish(p, SaveSummary(c, FALSE, TRUE, <<>>))
                       ELSE Goto(p, "s_write",
                                 c @@ [zip |-> scan.zip,
                                       fileCount |-> scan.fileCount])
    /\ UNCHANGED <<snapshotsPath, files, zips, metadata, now, live>>
    /\ UNCHANGED utilVars

\* saveSnapshot as it would be if it went on after a failed write of the container.
WriteFileOutcomeSwallowed(written) == "continue"

\* await fs.writeFile(zipPath, ...): saveSnapshot goes on when the container was
\* written; otherwise the rejection leaves saveSnapshot.
WriteFileOutcome(written) == IF written THEN "continue" ELSE "throw"

\* fs.writeFile(zipPath, zip.toBuffer()) and fs.stat(zipPath).
SaveWriteZip(p) ==
    /\ pc[p] = "s_write"
    /\ \E fault \in BOOLEAN :
        LET c == cur[p]
            id == SnapshotId(c.timestamp)
            written == ~fault /\ dirExists
        IN  IF WriteFileOutcome(written) = "continue"
            THEN /\ zips' = IF written
                            THEN [x \in DOMAIN zips \cup {id} |->
                                     IF x = id THEN c.zip ELSE zips[x]]
                            ELSE zips
                 /\ Goto(p, "s_list", c @@ [size |-> ZipSize(c.zip)])
            ELSE /\ Finish(p, SaveSummary(c, FALSE, fault, <<>>))
                 /\ UNCHANGED zips
    /\ UNCHANGED <<snapshotsPath, files, dirExists, metadata, now, opCount, live>>
    /\ UNCHANGED utilVars

\* updateMetadata: const snapshots = await this.listSnapshots()
SaveList(p) ==
    /\ pc[p] = "s_list"
    /\ Goto(p, "s_save", cur[p] @@ [snapshots |-> listSnapshots(Now)])
    /\ UNCHANGED <<snapshotsPath, files, dirExists, zips, metadata, now, opCount, live>>
    /\ UNCHANGED utilVars

\* updateMetadata as it would be if it read and wrote the index in one step.
SnapshotsReadAtWrite(snapshots, tree) == listSnapshots(tree)

\* The array updateMetadata pushes onto when it goes on after the await: the one
\* listSnapshots() returned, whatever the index document `tree` holds by now.
SnapshotsRead(snapshots, tree) == snapshots

\* updateMetadata: push, sort, saveMetadata(snapshots); then return metadata.
SaveMetadata(p) ==
    /\ pc[p] = "s_save"
    /\ \E fault \in BOOLEAN :
        LET c == cur[p]
            newMetadata == SnapshotMetadata(c.timestamp, c.options, c.fileCount, c.size)
            snapshots == updateMetadata(SnapshotsRead(c.snapshots, Now), newMetadata)
        IN  IF ~fault /\ dirExists
            THEN /\ metadata' = [exists |-> TRUE, doc |-> JSONStringify(snapshots)]
                 /\ live' = Append(live, newMetadata)
                 /\ Finish(p, SaveSummary(c, TRUE, FALSE, <<newMetadata>>))
            ELSE /\ Finish(p, SaveSummary(c, FALSE, fault, <<>>))
                 /\ UNCHANGED <<metadata, live>>
    /\ UNCHANGED <<snapshotsPath, files, dirExists, zips, now, opCount>>
    /\ UNCHANGED utilVars

(***************************************************************************)
(* restoreSnapshot(snapshotId, targetPath, createBackup), with the         *)
(* workspace root as targetPath.                                           *)
(***************************************************************************)
\* What is remembered of a completed restoreSnapshot: `backupId` and `backupZip`
\* are the backup container it wrote (<<>> when it wrote none).
RestoreSummary(c, ok, fault) ==
    [op |-> "restore", id |-> c.id, ok |-> ok, fault |-> fault,
     createBackup |-> c.createBackup, backupId |-> c.backupId,
     backupZip |-> c.backupZip, before |-> c.before]

\* restoreSnapshot as it would be if it went straight to the extraction.
RestoreFirstStepNoBackup(createBackup) == "r_extract"

\* The step restoreSnapshot takes first.
RestoreFirstStep(createBackup) == IF createBackup THEN "r_backup" ELSE "r_extract"

\* The call: zipPath is computed, createBackup is tested.
RestoreBegin(p) ==
    /\ pc[p] = "idle"
    /\ opCount < MaxOps
    /\ opCount' = opCount + 1
    /\ \E snapshotId \in CallIds, createBackup \in BOOLEAN :
        Goto(p, RestoreFirstStep(createBackup),
             [op |-> "restore", id |-> snapshotId, createBackup |-> createBackup,
              backupId |-> <<>>, backupZip |-> <<>>, before |-> Now])
    /\ UNCHANGED <<snapshotsPath, files, dirExists, zips, metadata, now, live>>
    /\ UNCHANGED utilVars

\* The backup: addFilesToZip(backupZip, targetPath), fs.writeFile(backupZipPath).
\* fault: an I/O call other than a file read (fs.readdir, fs.writeFile) throws.
RestoreBackup(p) ==
    /\ pc[p] = "r_backup"
    /\ \E unreadable \in UnreadableSets, fault \in BOOLEAN :
        LET backupId == BackupId(now)
            scan == addFilesToZip(Now, snapshotsPath, NoOptions, unreadable)
            c == cur[p]
        IN  IF ~fault /\ dirExists
            THEN /\ zips' = [x \in DOMAIN zips \cup {backupId} |->
                                IF x = backupId THEN scan.zip ELSE zips[x]]
                 /\ Goto(p, "r_extract",
                         [c EXCEPT !.backupId = backupId, !.backupZip = scan.zip])
            ELSE /\ Finish(p, RestoreSummary(c, FALSE, fault))
                 /\ UNCHANGED zips
    /\ UNCHANGED <<snapshotsPath, files, dirExists, metadata, now, opCount, live>>
    /\ UNCHANGED utilVars

\* new AdmZip(zipPath) throws when zipPath is no file; zip.extractAllTo(targetPath,
\* true) writes every entry under the target directory.
RestoreExtract(p) ==
    /\ pc[p] = "r_extract"
    /\ LET c == cur[p]
       IN  IF dirExists /\ c.id \in DOMAIN zips
           THEN /\ files' = ExtractFiles(zips[c.id], files)
                /\ zips' = ExtractZips(zips[c.id], zips)
                /\ metadata' = ExtractMetadata(zips[c.id], metadata)
                /\ Finish(p, RestoreSummary(c, TRUE, FALSE))
           ELSE /\ Finish(p, RestoreSummary(c, FALSE, FALSE))
                /\ UNCHANGED <<files, zips, metadata>>
    /\ UNCHANGED <<snapshotsPath, dirExists, now, opCount, live>>
    /\ UNCHANGED utilVars

(***************************************************************************)
(* deleteSnapshot(snapshotId)                                              *)
(***************************************************************************)
\* What is remembered of a completed deleteSnapshot: `repeat` says that the
\* operation completed just before it was a successful deleteSnapshot of the
\* same id, `removed` that that one found a record and a container to remove.
DeleteSummary(c, ok, fault) ==
    [op |-> "delete", id |-> c.id, ok |-> ok, fault |-> fault,
     repeat |-> c.repeat, removed |-> c.removed, before |-> c.before]

\* deleteSnapshot as it would be without the try/catch around fs.unlink.
UnlinkOutcomeThrowing(z, snapshotId) ==
    IF snapshotId \in DOMAIN z THEN "continue" ELSE "throw"

\* try { await fs.unlink(zipPath) } catch { }: deleteSnapshot goes on whether
\* the container file was there or not.
UnlinkOutcome(z, snapshotId) == "continue"

\* fs.unlink(zipPath).
DeleteUnlink(p) ==
    /\ pc[p] = "idle"
    /\ opCount < MaxOps
    /\ opCount' = opCount + 1
    /\ \E snapshotId \in CallIds :
        LET repeat == last.op = "delete" /\ last.ok /\ last.id = snapshotId
            c == [op |-> "delete", id |-> snapshotId, before |-> Now,
                  repeat |-> repeat,
                  removed |-> /\ repeat
                              /\ snapshotId \in IndexIds(last.before)
                              /\ snapshotId \in DOMAIN last.before.zips]
        IN  IF UnlinkOutcome(zips, snapshotId) = "continue"
            THEN /\ zips' = [x \in DOMAIN zips \ {snapshotId} |-> zips[x]]
                 /\ Goto(p, "d_meta", c)
            ELSE /\ Finish(p, DeleteSummary(c, FALSE, FALSE))
                 /\ UNCHANGED zips
    /\ UNCHANGED <<snapshotsPath, files, dirExists, metadata, now, live>>
    /\ UNCHANGED utilVars

\* listSnapshots(), filter, saveMetadata(updatedSnapshots).
DeleteMetadata(p) ==
    /\ pc[p] = "d_meta"
    /\ \E fault \in BOOLEAN :
        LET c == cur[p]
            updatedSnapshots == FilterOutId(listSnapshots(Now), c.id)
        IN  IF ~fault /\ dirExists
            THEN /\ metadata' = [exists |-> TRUE, doc |-> JSONStringify(updatedSnapshots)]
                 /\ live' = FilterOutId(live, c.id)
                 /\ Finish(p, DeleteSummary(c, TRUE, FALSE))
            ELSE /\ Finish(p, DeleteSummary(c, FALSE, fault))
                 /\ UNCHANGED <<metadata, live>>
    /\ UNCHANGED <<snapshotsPath, files, dirExists, zips, now, opCount>>
    /\ UNCHANGED utilVars

(***************************************************************************)
(* The environment: the user edits the workspace between operations, and   *)
(* time passes (Date.now() is the wall clock: it can also step back).      *)
(* `last` describes the operation that completed last as long as the       *)
(* workspace is as that operation left it: an edit clears it.              *)
(***************************************************************************)
AllIdle == \A p \in Procs : pc[p] = "idle"

EditFile ==
    /\ AllIdle
    /\ opCount < MaxOps
    /\ \E path \in EditedPaths, content \in Contents \cup {Absent} :
        /\ content # files[path]
        /\ files' = [files EXCEPT ![path] = content]
    /\ last' = NoOp
    /\ UNCHANGED <<snapshotsPath, dirExists, zips, metadata, now, pc, cur, opCount,
                   live>>
    /\ UNCHANGED utilVars

ClockStep ==
    /\ opCount < MaxOps
    /\ \E t \in 1..MaxTime : t # now /\ now' = t
    /\ UNCHANGED <<snapshotsPath, files, dirExists, zips, metadata, pc, cur, opCount,
                   last, live>>
    /\ UNCHANGED utilVars

Tick == AllIdle /\ ClockStep

(***************************************************************************)
(* Spec: one caller, whose operations are therefore serialized.            *)
(***************************************************************************)
Caller == 1

Next ==
    \/ SaveBegin(Caller)
    \/ SaveWriteZip(Caller)
    \/ SaveList(Caller)
    \/ SaveMetadata(Caller)
    \/ RestoreBegin(Caller)
    \/ RestoreBackup(Caller)
    \/ RestoreExtract(Caller)
    \/ DeleteUnlink(Caller)
    \/ DeleteMetadata(Caller)
    \/ EditFile
    \/ Tick

Spec == Init /\ [][Next]_vars

(***************************************************************************)
(* SpecConc: two callers run saveSnapshot on the same storage with no lock *)
(* around them; their steps interleave at the await points.                *)
(***************************************************************************)
NextConc ==
    \/ \E p \in Procs : SaveBegin(p)
    \/ \E p \in Procs : SaveWriteZip(p)
    \/ \E p \in Procs : SaveList(p)
    \/ \E p \in Procs : SaveMetadata(p)
    \/ ClockStep

SpecConc == Init /\ [][NextConc]_vars

(***************************************************************************)
(* SpecScan: the capture on its own.  A workspace with any tree over        *)
(* ScanPaths and a new storage; the caller takes one snapshot with any of   *)
(* ScanOptionsSet, while at most one file is unreadable, and then restores  *)
(* it into an empty directory.                                              *)
(***************************************************************************)
\* The arguments and results of the caller of SpecScan.
ScanLocals(options, unreadable, ret, target) ==
    [op |-> "scan", options |-> options, unreadable |-> unreadable, ret |-> ret,
     target |-> target]

InitScan ==
    /\ UtilInit
    /\ snapshotsPath \in SnapshotsPaths
    /\ files \in [ScanPaths -> {<<1>>, Absent}] \cup
                 {[p \in ScanPaths |-> IF p = A_TXT THEN <<2, 2>> ELSE <<1>>]}
    /\ dirExists = FALSE
    /\ zips = EmptyMap
    /\ metadata = [exists |-> FALSE, doc |-> <<>>]
    /\ now = 1
    /\ pc = [p \in Procs |-> IF p = Caller THEN "sc_start" ELSE "idle"]
    /\ \E options \in ScanOptionsSet :
           cur = [p \in Procs |->
                    IF p = Caller THEN ScanLocals(options, {}, <<>>, <<>>) ELSE Idle]
    /\ opCount = 0
    /\ last = NoOp
    /\ live = <<>>

\* saveSnapshot(workspaceRoot, options), from call to return, the reads of the
\* files in `unreadable` failing and no other I/O call.
Capture ==
    /\ pc[Caller] = "sc_start"
    /\ \E unreadable \in {{}} \cup {{p} : p \in ScanPaths} :
        LET options == cur[Caller].options
            c == [op |-> "save", options |-> options, timestamp |-> now,
                  before |-> Now, zip |-> EmptyZip, snapshots |-> <<>>]
            scan == addFilesToZip(Tree(files, TRUE, zips, metadata), snapshotsPath,
                                  options, unreadable)
            id == SnapshotId(now)
            written == [x \in DOMAIN zips \cup {id} |->
                           IF x = id THEN scan.zip ELSE zips[x]]
            newMetadata == SnapshotMetadata(now, options, scan.fileCount,
                                            ZipSize(scan.zip))
            snapshots == updateMetadata(
                             listSnapshots(Tree(files, TRUE, written, metadata)),
                             newMetadata)
        IN  /\ dirExists' = TRUE
            /\ zips' = written
            /\ metadata' = [exists |-> TRUE, doc |-> JSONStringify(snapshots)]
            /\ live' = Append(live, newMetadata)
            /\ last' = SaveSummary(c, TRUE, FALSE, <<newMetadata>>)
            /\ pc' = [pc EXCEPT ![Caller] = "sc_captured"]
            /\ cur' = [cur EXCEPT ![Caller] =
                          ScanLocals(options, unreadable, <<newMetadata>>, <<>>)]
    /\ opCount' = opCount + 1
    /\ UNCHANGED <<snapshotsPath, files, now>>
    /\ UNCHANGED utilVars

\* restoreSnapshot(id, emptyDirectory, false) with the id saveSnapshot returned:
\* `target` is the directory after the extraction.
RestoreIntoEmpty ==
    /\ pc[Caller] = "sc_captured"
    /\ LET c == cur[Caller]
           id == c.ret[1].id
           empty == [p \in ScanPaths |-> Absent]
       IN  /\ id \in DOMAIN zips
           /\ cur' = [cur EXCEPT ![Caller] =
                         [c EXCEPT !.target = <<ExtractFiles(zips[id], empty)>>]]
    /\ pc' = [pc EXCEPT ![Caller] = "sc_restored"]
    /\ opCount' = opCount + 1
    /\ UNCHANGED <<snapshotsPath, files, dirExists, zips, metadata, now, last, live>>
    /\ UNCHANGED utilVars

NextScan ==
    \/ Capture
    \/ RestoreIntoEmpty

SpecScan == InitScan /\ [][NextScan]_vars

(***************************************************************************)
(* SpecFault: the operations on a storage that was damaged from outside.    *)
(* Two snapshots were taken (at times 1 and 2); then the container file of  *)
(* one of them was removed by hand, or the index document was removed, or   *)
(* it was cut off by a crash during its rewrite.  The caller then reads the *)
(* index and runs the operations of Spec.                                   *)
(***************************************************************************)
\* The tree after a saveSnapshot(workspaceRoot) at time t with no I/O fault.
AfterSave(tree, dir, t) ==
    LET scan == addFilesToZip([tree EXCEPT !.dirExists = TRUE], dir, NoOptions, {})
        id == SnapshotId(t)
        written == [x \in DOMAIN tree.zips \cup {id} |->
                       IF x = id THEN scan.zip ELSE tree.zips[x]]
        newMetadata == SnapshotMetadata(t, NoOptions, scan.fileCount, ZipSize(scan.zip))
        snapshots == updateMetadata(listSnapshots(tree), newMetadata)
    IN  Tree(tree.files, TRUE, written,
             [exists |-> TRUE, doc |-> JSONStringify(snapshots)])

\* The kinds of damage.
Damages ==
    {[kind |-> "container", id |-> SnapshotId(t)] : t \in 1..2}
    \cup {[kind |-> "index removed", id |-> <<>>],
          [kind |-> "index truncated", id |-> <<>>]}

InitFault ==
    /\ UtilInit
    /\ snapshotsPath \in SnapshotsPaths
    /\ \E damage \in Damages :
        LET fresh == Tree([p \in WorkspacePaths |-> <<1>>], FALSE, EmptyMap,
                          [exists |-> FALSE, doc |-> <<>>])
            saved == AfterSave(AfterSave(fresh, snapshotsPath, 1), snapshotsPath, 2)
        IN  /\ files = saved.files
            /\ dirExists = saved.dirExists
            /\ zips = [x \in DOMAIN saved.zips \ {damage.id} |-> saved.zips[x]]
            /\ metadata =
                   IF damage.kind = "index removed"
                   THEN [exists |-> FALSE, doc |-> <<>>]
                   ELSE IF damage.kind = "index truncated"
                        THEN [exists |-> TRUE, doc |-> TRUNCATED]
                        ELSE saved.metadata
            /\ live = listSnapshots(saved)
    /\ now = 2
    /\ pc = [p \in Procs |-> "idle"]
    /\ cur = [p \in Procs |-> Idle]
    /\ opCount = MaxOps - 1
    /\ last = NoOp

\* The index document of a tree is missing or cannot be parsed.
IndexUnreadable(tree) ==
    \/ ~tree.dirExists
    \/ ~tree.metadata.exists
    \/ ~Parsable(tree.metadata.doc)

\* listSnapshots as it would be without its try/catch.
CatchOutcomeRethrowing(tree) == IF IndexUnreadable(tree) THEN "throw" ELSE "return"

\* listSnapshots: try { readFile; JSON.parse } catch { return [] } returns in
\* either case.
CatchOutcome(tree) == "return"

\* What is remembered of a completed listSnapshots or getSnapshotMetadata.
ReadSummary(op, id, ret) ==
    [op |-> op, id |-> id, ok |-> CatchOutcome(Now) = "return", fault |-> FALSE,
     ret |-> ret, before |-> Now]

\* listSnapshots()
ListSnapshots ==
    /\ AllIdle
    /\ last' = ReadSummary("list", <<>>, listSnapshots(Now))
    /\ UNCHANGED <<snapshotsPath, files, dirExists, zips, metadata, now, pc, cur,
                   opCount, live>>
    /\ UNCHANGED utilVars

\* getSnapshotMetadata(snapshotId)
GetSnapshotMetadata ==
    /\ AllIdle
    /\ \E snapshotId \in Ids :
           last' = ReadSummary("get", snapshotId, getSnapshotMetadata(Now, snapshotId))
    /\ UNCHANGED <<snapshotsPath, files, dirExists, zips, metadata, now, pc, cur,
                   opCount, live>>
    /\ UNCHANGED utilVars

NextFault ==
    \/ Next
    \/ ListSnapshots
    \/ GetSnapshotMetadata

SpecFault == InitFault /\ [][NextFault]_vars

(***************************************************************************)
(* Properties.                                                             *)
(***************************************************************************)
\* The records of the index, as listSnapshots() returns them now.
Listed == listSnapshots(Now)

\* The container files of the storage directory of a tree.
ContainerIds(tree) == IF tree.dirExists THEN DOMAIN tree.zips ELSE {}

\* How often a record occurs in a sequence.
Occurrences(seq, r) == Cardinality({i \in 1..Len(seq) : seq[i] = r})

\* The complete backup of a tree: every file the default filter accepts.
CompleteBackup(tree) == addFilesToZip(tree, snapshotsPath, NoOptions, {}).zip

\* C1: in restoreSnapshot(id, target, createBackup = true), whenever a step
\* changes a file of the target directory, the backup container is already in the
\* storage directory, written in full from the files the target held before the
\* restore (those the scan took and could read), and the target is still as it
\* was before the restore.
C1_BackupWrittenBeforeExtract ==
    [][\A p \in Procs :
          (/\ pc[p] \in {"r_backup", "r_extract"}
           /\ cur[p].createBackup
           /\ files' # files)
          => /\ cur[p].backupId \in DOMAIN zips
             /\ files = cur[p].before.files
             /\ \E unreadable \in UnreadableSets :
                    zips[cur[p].backupId] =
                        addFilesToZip(cur[p].before, snapshotsPath, NoOptions,
                                      unreadable).zip]_vars

\* A restore with backup has completed and has changed the target directory.
C1_Witness ==
    /\ last.op = "restore" /\ last.ok /\ last.createBackup
    /\ files # last.before.files
    /\ last.backupId \in DOMAIN zips

\* C2: when the backup step of restoreSnapshot(id, target, true) does not produce
\* a backup of the target directory's current state, the restore fails and the
\* target directory is as it was before the call.
C2_BackupFailureAbortsRestore ==
    (/\ last.op = "restore" /\ last.createBackup
     /\ last.backupZip # CompleteBackup(last.before))
    => (~last.ok /\ files = last.before.files)

\* C3: restoreSnapshot(id, target, true) with an id that has no container fails,
\* leaves the target directory untouched and creates no backup container.
C3_UnknownIdLeavesNoBackup ==
    (/\ AllIdle
     /\ last.op = "restore" /\ last.createBackup
     /\ last.id \notin ContainerIds(last.before))
    => /\ ~last.ok
       /\ files = last.before.files
       /\ ContainerIds(Now) = ContainerIds(last.before)

\* C4: an operation that completes on an index and a storage directory that
\* agree (every record has a container file named by its id, every container
\* file has a record) leaves them in agreement.
IndexAgreesWithContainers(tree) == IndexIds(tree) = ContainerIds(tree)
C4_IndexAgreesWithContainers ==
    (/\ AllIdle
     /\ last.op # "none" /\ last.ok
     /\ IndexAgreesWithContainers(last.before))
    => IndexAgreesWithContainers(Now)

\* C5: listSnapshots() is sorted by timestamp, descending, at all times; after a
\* successful saveSnapshot whose timestamp is later than that of every other
\* record, the first element is the record it returned.
C5_ListSortedDescending ==
    /\ \A i, j \in 1..Len(Listed) :
           i < j => Listed[i].timestamp >= Listed[j].timestamp
    /\ (/\ AllIdle
        /\ last.op = "save" /\ last.ok
        /\ \A i \in 1..Len(listSnapshots(last.before)) :
               listSnapshots(last.before)[i].timestamp < last.ret[1].timestamp)
       => Listed[1] = last.ret[1]

\* Two snapshots with different timestamps are listed, the later one first, the
\* earlier one having been created after it.
C5_Witness ==
    /\ AllIdle
    /\ last.op = "save" /\ last.ok
    /\ Len(Listed) = 2
    /\ Listed[1].timestamp > Listed[2].timestamp
    /\ Listed[2] = last.ret[1]

\* C6: no two records of the index have the same id.
C6_IdsUnique ==
    \A i, j \in 1..Len(Listed) : i # j => Listed[i].id # Listed[j].id

\* C7: a saveSnapshot that returns leaves the index holding the records it read
\* at listSnapshots() and its own record, and nothing else: a record another
\* caller wrote to the index in between is lost, though that caller returned
\* successfully.
C7_LostUpdate ==
    [][\A p \in Procs :
          (pc[p] = "s_save" /\ pc'[p] = "idle" /\ last'.ok)
          => /\ Len(metadata'.doc) = Len(cur[p].snapshots) + 1
             /\ \A i \in 1..Len(Listed) :
                    (/\ Occurrences(cur[p].snapshots, Listed[i]) = 0
                     /\ Listed[i] # last'.ret[1])
                    => Occurrences(JSONParse(metadata'.doc), Listed[i]) = 0]_vars

\* Both callers have returned from saveSnapshot successfully, with different
\* records, and the index holds the record of only one of them.
C7_Witness ==
    /\ AllIdle
    /\ Len(live) = 2
    /\ live[1] # live[2]
    /\ Len(Listed) = 1

\* C8: between operations listSnapshots() returns exactly the records that
\* saveSnapshot returned and whose id no successful deleteSnapshot was given
\* since (stated for the sequences in which saveSnapshot returned no id twice).
C8_ListedAreLive ==
    (/\ AllIdle
     /\ \A i, j \in 1..Len(live) : i # j => live[i].id # live[j].id)
    => /\ \A i \in 1..Len(Listed) :
              Occurrences(Listed, Listed[i]) = Occurrences(live, Listed[i])
       /\ \A i \in 1..Len(live) :
              Occurrences(Listed, live[i]) = Occurrences(live, live[i])

C10_DeleteWithoutContainer ==
    (/\ AllIdle
     /\ last.op = "delete"
     /\ last.id \in IndexIds(last.before)
     /\ last.id \notin ContainerIds(last.before)
     /\ ~last.fault)
    => (last.ok /\ last.id \notin IndexIds(Now))

\* Such a deleteSnapshot has succeeded.
C10_Witness ==
    /\ AllIdle
    /\ last.op = "delete" /\ last.ok
    /\ last.id \in IndexIds(last.before)
    /\ last.id \notin ContainerIds(last.before)
    /\ last.id \notin IndexIds(Now)

\* The directories the default patterns are meant for, and the paths below them.
DefaultExcludedDirs ==
    { <<"n", "o", "d", "e", "_", "m", "o", "d", "u", "l", "e", "s">>,
      <<".", "g", "i", "t">>,
      <<".", "v", "s", "c", "o", "d", "e">>,
      <<"o", "u", "t">>,
      <<"d", "i", "s", "t">> }
UnderDefaultExcludedDir(path) ==
    \E q \in PathAndParents(path) \ {path} : EntryName(q) \in DefaultExcludedDirs
EndsWithDotLog(path) ==
    /\ Len(path) >= 4
    /\ SubSeq(path, Len(path) - 3, Len(path)) = <<".", "l", "o", "g">>

\* The container saveSnapshot wrote in SpecScan.
CapturedZip == zips[cur[Caller].ret[1].id]
HasCaptured == pc[Caller] \in {"sc_captured", "sc_restored"}

\* C11: whatever include and exclude patterns the caller passes, no container
\* saveSnapshot wrote has an entry for a path under node_modules, .git, .vscode,
\* out or dist, or for a path that ends in .log.
C11_DefaultExcludesAlwaysApply ==
    \A id \in DOMAIN zips : \A path \in DOMAIN zips[id].files :
        ~UnderDefaultExcludedDir(path) /\ ~EndsWithDotLog(path)

\* A snapshot was taken of a tree with a readable file under .git, with an
\* include pattern that matches this file; its container has no entry for it.
C11_Witness ==
    /\ HasCaptured
    /\ files[GIT_C] # Absent
    /\ GIT_C \notin cur[Caller].unreadable
    /\ \E k \in 1..Len(cur[Caller].options.includePatterns) :
           matchesPattern(GIT_C, cur[Caller].options.includePatterns[k])
    /\ A_TXT \in DOMAIN CapturedZip.files
    /\ GIT_C \notin DOMAIN CapturedZip.files

\* C12: a snapshot of a tree whose files can all be read, restored into an empty
\* directory, gives every file whose path the filter accepts (shouldIncludeFile
\* with the caller's patterns) with the content it has in the tree, and no file
\* at a path the filter rejects.
C12_RoundTrip ==
    (pc[Caller] = "sc_restored" /\ cur[Caller].unreadable = {})
    => \A path \in ScanPaths :
           cur[Caller].target[1][path] =
               IF shouldIncludeFile(path, cur[Caller].options)
               THEN files[path]
               ELSE Absent

\* C13: whatever the storage directory is called, no container has an entry for
\* a file of the storage directory (the index document or a container file).
C13_CaptureSkipsStorage ==
    \A id \in DOMAIN zips : zips[id].meta = <<>> /\ DOMAIN zips[id].zips = {}

\* A sequence without its i-th element.
RemoveAt(seq, i) == SubSeq(seq, 1, i - 1) \o SubSeq(seq, i + 1, Len(seq))
\* The records of a sequence whose id is not `id`, in their order.
RecordsOtherThan(seq, id) ==
    LET keep(r) == r.id # id IN SelectSeq(seq, keep)

\* C14: a successful saveSnapshot leaves the index holding the records it held
\* before, each field for field and in their order, and the new record; a
\* successful deleteSnapshot(id) leaves it holding the records it held before
\* whose id is not id, field for field and in their order.
C14_RecordsImmutable ==
    (AllIdle /\ last.ok)
    => /\ last.op = "save" =>
              \E i \in 1..Len(Listed) :
                  /\ Listed[i] = last.ret[1]
                  /\ RemoveAt(Listed, i) = listSnapshots(last.before)
       /\ last.op = "delete" =>
              Listed = RecordsOtherThan(listSnapshots(last.before), last.id)

\* A deleteSnapshot has removed one record of an index of two, the first one.
C14_Witness ==
    /\ AllIdle
    /\ last.op = "delete" /\ last.ok
    /\ Len(listSnapshots(last.before)) = 2
    /\ listSnapshots(last.before)[1].id = last.id
    /\ Listed = <<listSnapshots(last.before)[2]>>

\* C15: whatever the storage directory is called, a restoreSnapshot, with or
\* without backup, successful or not, leaves listSnapshots() as it was before it
\* (stated for the indexes in which no id occurs twice).
C15_RestoreKeepsIndex ==
    (/\ last.op = "restore"
     /\ \A i, j \in 1..Len(listSnapshots(last.before)) :
            i # j => listSnapshots(last.before)[i].id # listSnapshots(last.before)[j].id)
    => Listed = listSnapshots(last.before)

\* C16: when the index document is missing or cannot be parsed, listSnapshots()
\* returns the empty sequence and getSnapshotMetadata(id) returns null, for every
\* id, and neither throws.
C16_UnreadableIndexIsEmpty ==
    (last.op \in {"list", "get"} /\ IndexUnreadable(last.before))
    => (last.ok /\ last.ret = <<>>)

\* getSnapshotMetadata has returned null for the id of a container of the storage
\* directory, the index document being cut off.
C16_Witness ==
    /\ last.op = "get"
    /\ last.before.metadata.exists /\ ~Parsable(last.before.metadata.doc)
    /\ last.id \in ContainerIds(last.before)
    /\ last.ret = <<>>

\* The records of a tree's index that have no container file.
RecordsWithoutContainer(tree) == IndexIds(tree) \ ContainerIds(tree)

\* C17: on a storage with a record whose container file is missing,
\* restoreSnapshot of that id fails and leaves the index as it was;
\* deleteSnapshot of that id succeeds (unless the write of the index document
\* is made to fail) and leaves every record with another id as it was;
\* listSnapshots() returns every record of the index.
C17_MissingContainerTolerated ==
    /\ (last.op = "restore" /\ last.id \in RecordsWithoutContainer(last.before))
       => (~last.ok /\ Listed = listSnapshots(last.before))
    /\ (/\ AllIdle
        /\ last.op = "delete" /\ ~last.fault
        /\ last.id \in RecordsWithoutContainer(last.before))
       => /\ last.ok
          /\ Listed = RecordsOtherThan(listSnapshots(last.before), last.id)
    /\ (last.op = "list" /\ RecordsWithoutContainer(last.before) # {})
       => /\ last.ok
          /\ Len(last.ret) = Len(last.before.metadata.doc)
          /\ \A i \in 1..Len(last.ret) :
                 \A f \in DOMAIN last.before.metadata.doc[i] :
                     last.ret[i][f] = last.before.metadata.doc[i][f]

\* A deleteSnapshot of the record without container has succeeded on an index of
\* two records and has left the other record.
C17_Witness ==
    /\ AllIdle
    /\ last.op = "delete" /\ last.ok
    /\ last.id \in RecordsWithoutContainer(last.before)
    /\ Len(listSnapshots(last.before)) = 2
    /\ Len(Listed) = 1
    /\ Listed[1].id # last.id

\* C19: a saveSnapshot after which the container file of its snapshot is not in
\* the storage directory (the directory could not be created, or the container
\* could not be written) has failed; a saveSnapshot that has failed before
\* updateMetadata leaves listSnapshots() as it was before the call.
C19_FailedSaveKeepsIndex ==
    (AllIdle /\ last.op = "save")
    => /\ last.id \notin ContainerIds(Now) => ~last.ok
       /\ (~last.ok /\ last.at # "updateMetadata")
          => Listed = listSnapshots(last.before)

\* A saveSnapshot has failed at the write of its container, on a storage whose
\* index holds a record, and the index is as before.
C19_Witness ==
    /\ AllIdle
    /\ last.op = "save" /\ ~last.ok /\ last.fault
    /\ last.at = "writeFile"
    /\ last.id \notin ContainerIds(Now)
    /\ Len(Listed) = 1
    /\ Listed = listSnapshots(last.before)

\* The files of the tree that the scan reaches and takes: no directory above
\* them and not they themselves are rejected by shouldIncludeFile.
AcceptedFiles ==
    {path \in ScanPaths : files[path] # Absent /\ Visited(path, cur[Caller].options)}
\* The number of entries of a container.
EntryCount(zip) ==
    Cardinality(DOMAIN zip.files) + Len(zip.meta) + Cardinality(DOMAIN zip.zips)

\* C18: a saveSnapshot during which the read of an accepted file fails succeeds;
\* its container has no entry for that file, has every other accepted file with
\* its content, and the fileCount it returns does not count the unreadable file.
C18_UnreadableFileSkipped ==
    (HasCaptured /\ cur[Caller].unreadable \cap AcceptedFiles # {})
    => /\ last.op = "save" /\ last.ok
       /\ DOMAIN CapturedZip.files = AcceptedFiles \ cur[Caller].unreadable
       /\ \A path \in DOMAIN CapturedZip.files : CapturedZip.files[path] = files[path]
       /\ cur[Caller].ret[1].fileCount =
              Cardinality(AcceptedFiles \ cur[Caller].unreadable)

\* A snapshot was taken while a.txt could not be read: the container holds
\* src/a.ts and not a.txt, and fileCount is 1.
C18_Witness ==
    /\ HasCaptured
    /\ cur[Caller].unreadable = {A_TXT}
    /\ A_TXT \in AcceptedFiles
    /\ DOMAIN CapturedZip.files = {SRC_A_TS}
    /\ cur[Caller].ret[1].fileCount = 1

\* C20: the fileCount saveSnapshot returns is the number of entries of the
\* container it wrote, which is the number of accepted files that could be read
\* (directories are not counted); a tree of a.txt and b.log captured with no
\* patterns gives fileCount 1 and a container with the one entry a.txt.
C20_FileCountIsEntryCount ==
    HasCaptured
    => /\ cur[Caller].ret[1].fileCount = EntryCount(CapturedZip)
       /\ cur[Caller].ret[1].fileCount =
              Cardinality(AcceptedFiles \ cur[Caller].unreadable)
       /\ (/\ {path \in ScanPaths : files[path] # Absent} = {A_TXT, B_LOG}
           /\ cur[Caller].options = NoOptions
           /\ cur[Caller].unreadable = {})
          => /\ cur[Caller].ret[1].fileCount = 1
             /\ DOMAIN CapturedZip.files = {A_TXT}

\* The tree of a.txt and b.log was captured with no patterns, with fileCount 1.
C20_Witness ==
    /\ HasCaptured
    /\ {path \in ScanPaths : files[path] # Absent} = {A_TXT, B_LOG}
    /\ cur[Caller].options = NoOptions
    /\ cur[Caller].unreadable = {}
    /\ cur[Caller].ret[1].fileCount = 1
    /\ DOMAIN CapturedZip.files = {A_TXT}

\* C23: no container has an entry for a file below a directory whose relative
\* path fails the filter (shouldIncludeFile with the caller's patterns).
C23_RejectedDirectoriesArePruned ==
    HasCaptured
    => \A path \in DOMAIN CapturedZip.files :
           \A q \in PathAndParents(path) \ {path} :
               shouldIncludeFile(q, cur[Caller].options)

\* A snapshot was taken of a tree with the readable file src/a.ts, which passes
\* the filter while the directory src fails it; the container has no src/a.ts.
C23_Witness ==
    /\ HasCaptured
    /\ files[SRC_A_TS] # Absent
    /\ SRC_A_TS \notin cur[Caller].unreadable
    /\ shouldIncludeFile(SRC_A_TS, cur[Caller].options)
    /\ ~shouldIncludeFile(<<"s", "r", "c">>, cur[Caller].options)
    /\ SRC_A_TS \notin DOMAIN CapturedZip.files

\* C26: no step of saveSnapshot or restoreSnapshot changes the container file of
\* a record of the index: as long as the file is there, it is as it was.
C26_ContainersImmutable ==
    [][\A id \in IndexIds(Now) \cap DOMAIN zips :
          id \in DOMAIN zips' => zips'[id] = zips[id]]_vars

\* C27: after a restoreSnapshot with createBackup = true that has completed and
\* whose backup scan could read every file, every file of the target directory
\* that was there before the restore and has other content now is an entry of
\* the backup container this restore wrote, with the content it had before.
C27_BackupCoversChangedFiles ==
    (/\ last.op = "restore" /\ last.ok /\ last.createBackup
     /\ last.backupZip = CompleteBackup(last.before))
    => \A path \in DOMAIN files :
           (last.before.files[path] # Absent /\ files[path] # last.before.files[path])
           => /\ path \in DOMAIN last.backupZip.files
              /\ last.backupZip.files[path] = last.before.files[path]

\* A restore with backup has changed a.txt, and the backup holds a.txt as it was.
C27_Witness ==
    /\ last.op = "restore" /\ last.ok /\ last.createBackup
    /\ last.backupZip = CompleteBackup(last.before)
    /\ last.before.files[A_TXT] # Absent
    /\ files[A_TXT] # last.before.files[A_TXT]
    /\ last.backupZip.files[A_TXT] = last.before.files[A_TXT]

\* C28: the extraction of a successful restoreSnapshot(id) is an overlay: every
\* entry of the container it opens becomes a file of the target directory with
\* the entry's content, and every other file of the target directory is left as
\* it was.
C28_RestoreIsOverlay ==
    [][(pc[Caller] = "r_extract" /\ pc'[Caller] = "idle" /\ last'.ok)
       => \A path \in DOMAIN files :
              files'[path] =
                  IF path \in DOMAIN zips[cur[Caller].id].files
                  THEN zips[cur[Caller].id].files[path]
                  ELSE files[path]]_vars

\* A restore has overwritten a.txt with the container's content and has left
\* b.log, which the container does not hold, in place.
C28_Witness ==
    /\ last.op = "restore" /\ last.ok
    /\ A_TXT \in DOMAIN last.before.zips[last.id].files
    /\ files[A_TXT] = last.before.zips[last.id].files[A_TXT]
    /\ files[A_TXT] # last.before.files[A_TXT]
    /\ B_LOG \notin DOMAIN last.before.zips[last.id].files
    /\ files[B_LOG] # Absent
    /\ files[B_LOG] = last.before.files[B_LOG]

(***************************************************************************)
(* TelemetryManager (telemetry.ts).  The asynchronous calls in flight are  *)
(* the processes of Procs: pc is the await point of each, cur its locals.  *)
(***************************************************************************)
\* private maxEvents: 1000 in the source, 2 here so that the list fills up.
maxEvents == 2
\* Calls of trackEvent and of the reading methods in one behaviour.
MaxTracks == 3
MaxReads == 2

\* trackEvent: the event built at lines 34-39.  Date.now() is part of the id;
\* the clock advances with every event, so ids and timestamps are distinct.
TelemetryEvent(t) ==
    [id |-> <<"evt", t>>, timestamp |-> t, event |-> "snapshot_created"]

\* this.events.slice(-n)
SliceLast(list, n) ==
    IF Len(list) > n THEN SubSeq(list, Len(list) - n + 1, Len(list)) ELSE list

\* telemetry.json as an earlier TelemetryManager of the same workspace left it.
PersistedFiles ==
    {NoFile,
     [exists |-> TRUE, events |-> <<TelemetryEvent(1)>>],
     [exists |-> TRUE, events |-> <<TelemetryEvent(1), TelemetryEvent(2)>>]}

\* new TelemetryManager(workspaceRoot): events = [], nothing is read.
InitTelemetry ==
    /\ snapshotsPath = DOT_SNAPSHOTS
    /\ files = [p \in WorkspacePaths |-> <<1>>]
    /\ dirExists = FALSE
    /\ zips = EmptyMap
    /\ metadata = [exists |-> FALSE, doc |-> <<>>]
    /\ live = <<>>
    /\ telemetryFile \in PersistedFiles
    /\ events = <<>>
    /\ history = [persisted |-> telemetryFile.events, tracked |-> <<>>]
    /\ now = Len(telemetryFile.events) + 1
    /\ pc = [p \in Procs |-> "idle"]
    /\ cur = [p \in Procs |-> Idle]
    /\ opCount = 0
    /\ last = NoOp
    /\ proLicenseKey = <<>>
    /\ timeout = <<>>
    /\ invoked = <<>>
    /\ calls = <<>>

\* trackEvent(event): push, trim, and saveTelemetry() started without await; it
\* runs up to its first await (fs.mkdir) before trackEvent returns.
TrackEvent(p) ==
    /\ pc[p] = "idle"
    /\ Len(history.tracked) < MaxTracks
    /\ LET telemetryEvent == TelemetryEvent(now)
       IN  /\ events' = SliceLast(Append(events, telemetryEvent), maxEvents)
           /\ history' = [history EXCEPT !.tracked = Append(@, telemetryEvent)]
    /\ now' = now + 1
    /\ Goto(p, "t_mkdir", [op |-> "saveTelemetry"])
    /\ UNCHANGED <<storageVars, opCount, telemetryFile, proLicenseKey, timeout,
                   invoked, calls>>

\* saveTelemetry after await fs.mkdir: data is built from this.events as it is
\* now and handed to fs.writeFile.  A failure is caught and logged.
SaveMkdir(p) ==
    /\ pc[p] = "t_mkdir"
    /\ \E fault \in BOOLEAN :
        IF fault
        THEN Finish(p, [op |-> "saveTelemetry", ok |-> FALSE, data |-> <<>>])
        ELSE Goto(p, "t_write", [op |-> "saveTelemetry", data |-> events])
    /\ UNCHANGED <<storageVars, now, opCount, utilVars>>

\* fs.writeFile(telemetryFile, JSON.stringify(data)) completes or fails.
SaveWrite(p) ==
    /\ pc[p] = "t_write"
    /\ \E fault \in BOOLEAN :
        /\ telemetryFile' = IF fault THEN telemetryFile
                            ELSE [exists |-> TRUE, events |-> cur[p].data]
        /\ Finish(p, [op |-> "saveTelemetry", ok |-> ~fault, data |-> cur[p].data])
    /\ UNCHANGED <<storageVars, now, opCount, events, history, proLicenseKey,
                   timeout, invoked, calls>>

\* The methods that start with await this.loadTelemetry().
ReadOps == {"getStats", "getEvents", "exportTelemetry"}

\* getStats(), getEvents(startTime, endTime, eventType), exportTelemetry() up to
\* the fs.readFile of loadTelemetry.  filtered: getEvents was given an argument
\* (one that every event passes), so that filter() makes a new array.
ReadBegin(p) ==
    /\ pc[p] = "idle"
    /\ opCount < MaxReads
    /\ opCount' = opCount + 1
    /\ \E op \in ReadOps, filtered \in BOOLEAN :
        /\ filtered => op = "getEvents"
        /\ Goto(p, "t_readFile",
                [op |-> op, filtered |-> filtered, after |-> history.tracked])
    /\ UNCHANGED <<storageVars, now, utilVars>>

\* What fs.readFile and JSON.parse give: the events of the file, or an error when
\* the file is missing.
Parsed(file) ==
    IF file.exists THEN [ok |-> TRUE, events |-> file.events]
    ELSE [ok |-> FALSE, events |-> <<>>]

\* fs.readFile while an fs.writeFile of the same file is in flight may also see
\* the file cut off, on which JSON.parse throws.
ReadFileOutcomes ==
    {Parsed(telemetryFile)} \cup
    (IF \E q \in Procs : pc[q] = "t_write"
     THEN {[ok |-> FALSE, events |-> <<>>]} ELSE {})

\* loadTelemetry: fs.readFile completes.
ReadFile(p) ==
    /\ pc[p] = "t_readFile"
    /\ \E data \in ReadFileOutcomes :
        Goto(p, "t_loaded",
             [op |-> cur[p].op, filtered |-> cur[p].filtered,
              after |-> cur[p].after, data |-> data])
    /\ UNCHANGED <<storageVars, now, opCount, utilVars>>

\* The rest of the method: this.events = parsed.events || [] (or [] in the
\* catch), then the result.  getEvents sorts filteredEvents, which is this.events
\* itself when no argument was given.  The result is the list of events the
\* method answers from; `after` are the events tracked before the call.
LoadAssign(p) ==
    /\ pc[p] = "t_loaded"
    /\ LET c == cur[p]
           loaded == IF c.data.ok THEN c.data.events ELSE <<>>
           result == IF c.op = "getEvents" THEN SortByTimestampDesc(loaded)
                     ELSE loaded
       IN  /\ events' = IF c.op = "getEvents" /\ ~c.filtered THEN result ELSE loaded
           /\ Finish(p, [op |-> c.op, ok |-> TRUE, result |-> result,
                         after |-> c.after, tracked |-> history.tracked])
    /\ UNCHANGED <<storageVars, now, opCount, telemetryFile, history,
                   proLicenseKey, timeout, invoked, calls>>

NextTelemetry ==
    \E p \in Procs :
        \/ TrackEvent(p)
        \/ SaveMkdir(p)
        \/ SaveWrite(p)
        \/ ReadBegin(p)
        \/ ReadFile(p)
        \/ LoadAssign(p)

SpecTelemetry == InitTelemetry /\ [][NextTelemetry]_vars

\* The elements of a list.
Range(list) == {list[i] : i \in 1..Len(list)}

\* The events a manager that loses nothing would hold: the last maxEvents of
\* those persisted earlier followed by those tracked since.
Retained(persisted, tracked) == SliceLast(persisted \o tracked, maxEvents)

\* C21: a completed getStats, getEvents or exportTelemetry answers from a list
\* that holds every event whose trackEvent returned before the call (unless
\* maxEvents later events have pushed it out).
C21_TrackedEventsAreRead ==
    (last.op \in ReadOps)
    => \A e \in Range(last.after) :
           e \in Range(Retained(history.persisted, last.tracked))
           => e \in Range(last.result)

\* C24: the in-memory list never holds more than maxEvents events, and a
\* trackEvent that trims it keeps the maxEvents events with the latest timestamps.
C24_TrimKeepsLatest ==
    [][/\ Len(events') <= maxEvents
       /\ (now' # now /\ Len(events) + 1 > maxEvents)
          => LET all == Range(events) \cup {TelemetryEvent(now)}
             IN  Range(events') =
                     {e \in all :
                         Cardinality({f \in all : f.timestamp > e.timestamp})
                             < maxEvents}]_vars

\* C29: when the first call on a new manager is a trackEvent and its save has
\* written the file, the file holds the events persisted before (up to the cap)
\* and the new event.
C29_TrackKeepsPersisted ==
    (/\ AllIdle /\ opCount = 0 /\ Len(history.tracked) = 1
     /\ last.op = "saveTelemetry" /\ last.ok)
    => Range(telemetryFile.events) = Range(Retained(history.persisted, history.tracked))

(***************************************************************************)
(* Timers (setTimeout, clearTimeout) and the clock, for Utils.debounce and  *)
(* Utils.retry.  A timer runs at its due time; time does not pass a timer   *)
(* that is due.                                                            *)
(***************************************************************************)
\* The clock stops here when no timer is pending.
MaxClock == 6

\* Some pending timer is due now.
TimerDue == \E k \in 1..Len(timeout) : timeout[k].due <= now

\* One millisecond passes; none does while synchronous code is running.
TimePasses ==
    /\ ~TimerDue
    /\ pc[Caller] # "y_loop"
    /\ timeout = <<>> => now < MaxClock
    /\ now' = now + 1
    /\ UNCHANGED <<storageVars, pc, cur, opCount, last, utilVars>>

\* The state of everything SnapshotStorage owns, in the specifications that do
\* not use it.
StorageUnused ==
    /\ snapshotsPath = DOT_SNAPSHOTS
    /\ files = [p \in WorkspacePaths |-> <<1>>]
    /\ dirExists = FALSE
    /\ zips = EmptyMap
    /\ metadata = [exists |-> FALSE, doc |-> <<>>]
    /\ live = <<>>

(***************************************************************************)
(* Utils.debounce(func, wait)                                              *)
(***************************************************************************)
\* Calls of the debounced function in one behaviour, their arguments, and the
\* values of wait.
MaxCalls == 3
Args == {"a", "b"}
Waits == {1, 2}

\* Utils.debounce(func, wait) has returned the debounced function; its closure
\* holds wait and the timeout handle.
InitDebounce ==
    /\ StorageUnused
    /\ UtilInit
    /\ now = 0
    /\ pc = [p \in Procs |-> "idle"]
    /\ \E wait \in Waits :
        cur = [p \in Procs |-> IF p = Caller THEN [op |-> "debounce", wait |-> wait]
                               ELSE Idle]
    /\ opCount = 0
    /\ last = NoOp

\* debounce as it would be without clearTimeout(timeout).
clearTimeoutLeaving(timers) == timers

\* clearTimeout(timeout): the timer of the handle, the only one the closure can
\* have pending, is removed.
clearTimeout(timers) == <<>>

\* The debounced function is called with args: the pending timer is cleared and
\* a new one set.  A call made at the time a timer is due comes after the timer.
DebouncedCall ==
    /\ opCount < MaxCalls
    /\ ~TimerDue
    /\ opCount' = opCount + 1
    /\ \E args \in Args :
        /\ timeout' = Append(clearTimeout(timeout),
                             [due |-> now + cur[Caller].wait, args |-> args])
        /\ calls' = Append(calls, [at |-> now, args |-> args])
    /\ UNCHANGED <<storageVars, now, pc, cur, last, telemetryVars, proLicenseKey,
                   invoked>>

\* The timer's callback: () => func(...args).
TimerFires ==
    /\ \E k \in 1..Len(timeout) :
        /\ timeout[k].due <= now
        /\ invoked' = Append(invoked, [at |-> now, args |-> timeout[k].args])
        /\ timeout' = SubSeq(timeout, 1, k - 1) \o SubSeq(timeout, k + 1, Len(timeout))
    /\ UNCHANGED <<storageVars, now, pc, cur, opCount, last, telemetryVars,
                   proLicenseKey, calls>>

NextDebounce == DebouncedCall \/ TimerFires \/ TimePasses

SpecDebounce == InitDebounce /\ [][NextDebounce]_vars

\* The calls that end a burst: the next call comes wait ms later or more, or
\* there is no next call and no timer is pending any more.
BurstEnds ==
    {i \in 1..Len(calls) :
        IF i < Len(calls) THEN calls[i + 1].at - calls[i].at >= cur[Caller].wait
        ELSE timeout = <<>>}

MaxRetries == 2
BaseDelays == {1, 2}

\* Math.pow(2, i)
RECURSIVE Pow2(_)
Pow2(i) == IF i = 0 THEN 1 ELSE 2 * Pow2(i - 1)

\* retry as it would be with the same delay before every attempt.
RetryDelayConstant(baseDelay, i) == baseDelay

\* const delay = baseDelay * Math.pow(2, i)
RetryDelay(baseDelay, i) == baseDelay * Pow2(i)

\* retry(fn, maxRetries, baseDelay) has been called: i = 0.
InitRetry ==
    /\ StorageUnused
    /\ UtilInit
    /\ now = 0
    /\ pc = [p \in Procs |-> IF p = Caller THEN "y_loop" ELSE "idle"]
    /\ \E maxRetries \in 0..MaxRetries, baseDelay \in BaseDelays :
        cur = [p \in Procs |->
                  IF p = Caller
                  THEN [op |-> "retry", maxRetries |-> maxRetries,
                        baseDelay |-> baseDelay, i |-> 0, lastError |-> <<>>,
                        started |-> 0]
                  ELSE Idle]
    /\ opCount = 0
    /\ last = NoOp

\* What is remembered of a completed retry.
RetrySummary(c, ok, value) ==
    [op |-> "retry", ok |-> ok, value |-> value, maxRetries |-> c.maxRetries,
     baseDelay |-> c.baseDelay]

\* for (...; i <= maxRetries; ...) { try { return await fn() ...: fn is invoked;
\* after the loop, throw lastError.
RetryInvoke ==
    /\ pc[Caller] = "y_loop"
    /\ LET c == cur[Caller]
       IN  IF c.i <= c.maxRetries
           THEN Goto(Caller, "y_await", [c EXCEPT !.started = now])
           ELSE Finish(Caller, RetrySummary(c, FALSE, c.lastError))
    /\ UNCHANGED <<storageVars, now, opCount, utilVars>>

\* The promise of fn() settles: return its value, or catch the error, throw it
\* when i === maxRetries, and otherwise sleep for the delay.
RetrySettle ==
    /\ pc[Caller] = "y_await"
    /\ \E ok \in BOOLEAN :
        LET c == cur[Caller]
            value == <<IF ok THEN "value" ELSE "error", c.i>>
        IN  /\ invoked' = Append(invoked, [at |-> c.started, settled |-> now,
                                           ok |-> ok, value |-> value])
            /\ IF ok
               THEN Finish(Caller, RetrySummary(c, TRUE, value)) /\ UNCHANGED timeout
               ELSE IF c.i = c.maxRetries
               THEN Finish(Caller, RetrySummary(c, FALSE, value)) /\ UNCHANGED timeout
               ELSE /\ Goto(Caller, "y_sleep", [c EXCEPT !.lastError = value])
                    /\ timeout' = Append(timeout,
                                         [due |-> now + RetryDelay(c.baseDelay, c.i),
                                          args |-> <<>>])
    /\ UNCHANGED <<storageVars, now, opCount, telemetryVars, proLicenseKey, calls>>

\* The sleep's timer runs and resolves the promise: i++.
RetryWake ==
    /\ pc[Caller] = "y_sleep"
    /\ TimerDue
    /\ timeout' = <<>>
    /\ Goto(Caller, "y_loop", [cur[Caller] EXCEPT !.i = @ + 1])
    /\ UNCHANGED <<storageVars, now, opCount, telemetryVars, proLicenseKey, invoked,
                   calls>>

NextRetry == RetryInvoke \/ RetrySettle \/ RetryWake \/ TimePasses

SpecRetry == InitRetry /\ [][NextRetry]_vars

\* The arguments of the retry call, running or completed.
RetryArgs == IF pc[Caller] = "idle" THEN last ELSE cur[Caller]

\* C25: fn is invoked at most maxRetries + 1 times and never after a successful
\* invocation; a retry that has not completed can take a step; the wait between
\* the failure of invocation number k and invocation number k + 1 is
\* baseDelay * 2^(k-1); a completed retry returned the value of its last
\* invocation, which succeeded, or threw the error of its last invocation after
\* maxRetries + 1 failures.
C25_RetryBounded ==
    /\ Len(invoked) + (IF pc[Caller] = "y_await" THEN 1 ELSE 0)
           <= RetryArgs.maxRetries + 1
    /\ \A k \in 1..(Len(invoked) - 1) :
           /\ ~invoked[k].ok
           /\ invoked[k + 1].at - invoked[k].settled
                  = RetryArgs.baseDelay * Pow2(k - 1)
    /\ pc[Caller] # "idle" => ENABLED NextRetry
    /\ pc[Caller] = "idle"
       => /\ invoked # <<>>
          /\ last.value = invoked[Len(invoked)].value
          /\ last.ok = invoked[Len(invoked)].ok
          /\ ~last.ok => Len(invoked) = last.maxRetries + 1

\* fn failed twice and succeeded at the third invocation, with maxRetries = 2
\* and baseDelay = 2: retry returned the third value after waits of 2 and 4.
C25_Witness ==
    /\ pc[Caller] = "idle"
    /\ last.ok /\ last.maxRetries = 2 /\ last.baseDelay = 2
    /\ Len(invoked) = 3
    /\ last.value = <<"value", 2>>
    /\ invoked[2].at - invoked[1].settled = 2
    /\ invoked[3].at - invoked[2].settled = 4

(***************************************************************************)
(* LicenseKeyManager (keyManager) and the commands of the extension that   *)
(* use it.  Strings are sequences of characters.                           *)
(***************************************************************************)
\* private readonly saltLength = 16
saltLength == 16
\* Commands run in one behaviour.
MaxCommands == 4

\* The character c, n times.
Rep(c, n) == [i \in 1..n |-> c]

UpperOrDigit ==
    {"A", "B", "C", "D", "E", "F", "G", "H", "I", "J", "K", "L", "M", "N", "O", "P",
     "Q", "R", "S", "T", "U", "V", "W", "X", "Y", "Z",
     "0", "1", "2", "3", "4", "5", "6", "7", "8", "9"}
HexDigits ==
    <<"0", "1", "2", "3", "4", "5", "6", "7", "8", "9", "a", "b", "c", "d", "e", "f">>

\* /^SNAP-[A-Z0-9]{4}-[A-Z0-9]{4}-[A-Z0-9]{4}-[A-Z0-9]{4}$/.test(key)
validateKeyFormat(key) ==
    /\ Len(key) = 24
    /\ SubSeq(key, 1, 5) = <<"S", "N", "A", "P", "-">>
    /\ \A i \in 6..24 :
           IF i \in {10, 15, 20} THEN key[i] = "-" ELSE key[i] \in UpperOrDigit

\* A string of the form SNAP-cccc-dddd-eeee-ffff.
KeyOf(c, d, e, f) ==
    <<"S", "N", "A", "P", "-">> \o Rep(c, 4) \o <<"-">> \o Rep(d, 4) \o <<"-">>
        \o Rep(e, 4) \o <<"-">> \o Rep(f, 4)

\* What the user types into the input box: keys of the right format, and strings
\* that are not (lower case, too short, too long, empty).
InputKeys ==
    {KeyOf("A", "B", "C", "D"), KeyOf("0", "9", "Z", "7"), KeyOf("S", "N", "A", "P"),
     KeyOf("a", "b", "c", "d"), <<"S", "N", "A", "P">>,
     KeyOf("A", "B", "C", "D") \o <<"X">>, <<>>}

\* randomBytes(saltLength).toString('hex'): 2 * saltLength hexadecimal digits.
Salts ==
    {Rep("0", 2 * saltLength), Rep("a", 2 * saltLength),
     [i \in 1..(2 * saltLength) |-> IF i % 2 = 1 THEN "5" ELSE "f"]}

\* A number for every character, for the digest below.
RECURSIVE Weight(_)
Weight(str) ==
    IF str = <<>> THEN 0
    ELSE (IF Head(str) \in UpperOrDigit THEN 3 ELSE 7) + Len(str) + Weight(Tail(str))

\* createHash('sha256').update(data).digest('hex'): 64 hexadecimal digits that
\* depend on data (the digest itself is not computed).
Sha256Hex(data) == [i \in 1..64 |-> HexDigits[((Weight(data) + i) % 16) + 1]]

\* encryptKey(licenseKey), with the salt generateSalt() returned.
encryptKey(licenseKey, salt) == salt \o <<":">> \o Sha256Hex(licenseKey \o salt)

\* str.split(':')
RECURSIVE Split(_)
Split(str) ==
    IF \A i \in 1..Len(str) : str[i] # ":" THEN <<str>>
    ELSE LET k == CHOOSE i \in 1..Len(str) :
                      str[i] = ":" /\ \A j \in 1..(i - 1) : str[j] # ":"
         IN  <<SubSeq(str, 1, k - 1)>> \o Split(SubSeq(str, k + 1, Len(str)))

\* decryptKey(encryptedKey): null (here <<>>) unless both parts are non-empty.
decryptKey(encryptedKey) ==
    LET parts == Split(encryptedKey)
    IN  IF Len(parts) < 2 \/ parts[1] = <<>> \/ parts[2] = <<>> THEN <<>>
        ELSE <<"VALID_KEY">>

\* validateKey(key), with the salt generateSalt() returns when it is asked.
validateKey(key, salt) ==
    LET isValid == validateKeyFormat(key)
    IN  [key |-> key,
         encrypted |-> IF isValid THEN encryptKey(key, salt) ELSE <<>>,
         isValid |-> isValid,
         features |-> IF isValid
                      THEN <<"timeline-chart", "markdown-export", "auto-clean">>
                      ELSE <<>>]

\* isProEnabled(storedKey)
isProEnabled(storedKey) ==
    IF storedKey = <<>> THEN FALSE
    ELSE /\ decryptKey(storedKey) # <<>>
         /\ validateKeyFormat(Split(storedKey)[1])

\* The commands that test isProEnabled before they do anything.
ProCommands == {"showTimelineChart", "exportChangelog", "autoClean"}

\* The extension is active; globalState has no 'proLicenseKey'.
InitLicense ==
    /\ StorageUnused
    /\ UtilInit
    /\ now = 0
    /\ pc = [p \in Procs |-> "idle"]
    /\ cur = [p \in Procs |-> Idle]
    /\ opCount = 0
    /\ last = NoOp

\* enterProKey: the input box accepts only what validateInput lets through (a
\* non-empty string of the key format); otherwise the user can only cancel.
EnterProKey ==
    /\ opCount < MaxCommands
    /\ opCount' = opCount + 1
    /\ \E input \in InputKeys, salt \in Salts :
        LET accepted == input # <<>> /\ validateKeyFormat(input)
            validation == validateKey(input, salt)
            stored == accepted /\ validation.isValid
        IN  /\ proLicenseKey' = IF stored THEN validation.encrypted ELSE proLicenseKey
            /\ last' = [op |-> "enterProKey", ok |-> stored, key |-> input]
    /\ UNCHANGED <<storageVars, now, pc, cur, telemetryVars, timeout, invoked, calls>>

\* showTimelineChart, exportChangelog, autoClean: isProEnabled(storedKey || '')
\* decides whether the command goes on or shows the warning and returns.
ProCommand ==
    /\ opCount < MaxCommands
    /\ opCount' = opCount + 1
    /\ \E command \in ProCommands :
        last' = [op |-> command, ok |-> isProEnabled(proLicenseKey), key |-> <<>>]
    /\ UNCHANGED <<storageVars, now, pc, cur, utilVars>>

NextLicense == EnterProKey \/ ProCommand

SpecLicense == InitLicense /\ [][NextLicense]_vars

\* C30: after enterProKey has stored the encrypted form of a key of the right
\* format, isProEnabled of the stored key is true and the Pro commands go on;
\* isProEnabled of the empty stored key is false.
C30_ActivationUnlocksPro ==
    /\ (last.op = "enterProKey" /\ last.ok) => isProEnabled(proLicenseKey)
    /\ (last.op \in ProCommands /\ proLicenseKey # <<>>) => last.ok
    /\ ~isProEnabled(<<>>)

====
